---- MODULE Spec2Model ----
(***************************************************************************)
(* roughrider.workflow, graph.py: a workflow is a closed enumeration of    *)
(* states, an index of guarded transitions and a default state.  A         *)
(* WorkflowItem binds a workflow to an entity (its __workflow_state__      *)
(* slot) and a namespace; set_state checks the guards of the transition    *)
(* from the current state to the target, runs the triggers and writes the  *)
(* slot.                                                                   *)
(***************************************************************************)
EXTENDS Integers, Sequences, FiniteSets, TLC

VARIABLES transitions, edges, default_state, workflow_state, namespace, call

vars == <<transitions, edges, default_state, workflow_state, namespace, call>>

\* Longest sequence of transitions handed to Transitions(...).
MaxTrans == 3

\* The WorkflowItems bound to the one entity.
Items == {1, 2}

\* Python's None, as a value of the string-or-absent slot.
None == "None"

(***************************************************************************)
(* The state enumeration of the workflow definition:                       *)
(*     class states(WorkflowState):                                        *)
(*         draft = 'Draft'; sub = 'Sub'; pub = 'pub'                       *)
(* A member has the enum name and, from the State dataclass, the           *)
(* identifier given as its value.                                          *)
(***************************************************************************)
State(name, identifier) == [name |-> name, identifier |-> identifier]

states == {State("draft", "Draft"), State("sub", "Sub"), State("pub", "pub")}

NoState == State("", "")

\* State.__eq__ (dataclass) and State.__hash__: by identifier.
StateEq(s, t) == s.identifier = t.identifier

\* EnumMeta.__getitem__: states[name] looks a member up by its NAME and
\* raises KeyError otherwise.
StatesHas(name) == \E s \in states : s.name = name

StatesGetItem(name) ==
    IF StatesHas(name)
    THEN [exc |-> "", value |-> CHOOSE s \in states : s.name = name]
    ELSE [exc |-> "KeyError", value |-> NoState]

(***************************************************************************)
(* Validators.  A plain validator passes when the namespace holds TRUE     *)
(* under its key and raises Error(key) otherwise; an "agg" validator       *)
(* raises ConstraintsErrors(key.1, key.2) instead; OR is the combinator    *)
(* of the module.                                                          *)
(***************************************************************************)
Keys == {"k1", "k2"}

Plain(key) == [kind |-> "plain", key |-> key, validators |-> <<>>]

Agg(key) == [kind |-> "agg", key |-> key, validators |-> <<>>]

OR(validators) == [kind |-> "or", key |-> "", validators |-> validators]

\* What a call ends with: exc = "" is a normal return.
Outcome(exc, errors) == [exc |-> exc, errors |-> errors]

Passed == Outcome("", <<>>)

\* How a run of OR.validate ends, with the positions of the sub-validators
\* it called.
Tried(exc, errors, seen) == [exc |-> exc, errors |-> errors, seen |-> seen]

RECURSIVE validate(_, _)
RECURSIVE or_loop(_, _, _, _, _)

\* OR.validate: the loop over self.validators from position i on.
or_loop(validators, ns, i, errors, seen) ==
    IF i > Len(validators)
    THEN \* raise ConstraintsError(*errors): the name is not defined
         Tried("NameError", <<>>, seen)
    ELSE LET r == validate(validators[i], ns)
             seen2 == Append(seen, i)
         IN  CASE r.exc = "" -> Tried("", <<>>, seen2)
               [] r.exc = "Error" ->
                    or_loop(validators, ns, i + 1, errors \o r.errors, seen2)
               [] r.exc = "ConstraintsErrors" ->
                    \* errors.extends(...): a list has no such method
                    Tried("AttributeError", <<>>, seen2)
               [] OTHER -> Tried(r.exc, r.errors, seen2)

\* OR.validate, called on its own.
or_validate(validators, ns) == or_loop(validators, ns, 1, <<>>, <<>>)

validate(v, ns) ==
    CASE v.kind = "plain" ->
            IF ns[v.key] THEN Passed ELSE Outcome("Error", <<v.key>>)
      [] v.kind = "agg" ->
            IF ns[v.key] THEN Passed
            ELSE Outcome("ConstraintsErrors", <<v.key \o ".1", v.key \o ".2">>)
      [] OTHER -> LET r == or_validate(v.validators, ns)
                  IN  Outcome(r.exc, r.errors)

\* The result of resolve_validators / check_constraints: exc = "" with
\* ret = None or ret = "ConstraintsErrors" (the aggregate, errors), or an
\* exception; seen lists the positions of the validators that were called.
Checked(exc, ret, errors, seen) ==
    [exc |-> exc, ret |-> ret, errors |-> errors, seen |-> seen]

RECURSIVE resolve_loop(_, _, _, _, _)

resolve_loop(validators, ns, i, errors, seen) ==
    IF i > Len(validators)
    THEN IF errors # <<>>
         THEN Checked("", "ConstraintsErrors", errors, seen)
         ELSE Checked("", None, <<>>, seen)
    ELSE LET r == validate(validators[i], ns)
             seen2 == Append(seen, i)
         IN  CASE r.exc = "" ->
                    resolve_loop(validators, ns, i + 1, errors, seen2)
               [] r.exc = "Error" ->
                    resolve_loop(validators, ns, i + 1, errors \o r.errors, seen2)
               [] r.exc = "ConstraintsErrors" ->
                    \* errors.extends(...): a list has no such method
                    Checked("AttributeError", None, <<>>, seen2)
               [] OTHER -> Checked(r.exc, None, <<>>, seen2)

resolve_validators(validators, ns) == resolve_loop(validators, ns, 1, <<>>, <<>>)

(***************************************************************************)
(* Actions, triggers and transitions.                                      *)
(***************************************************************************)
Action(identifier, constraints, triggers) ==
    [identifier |-> identifier, constraints |-> constraints, triggers |-> triggers]

\* A trigger is a callable; raises = "" when it returns normally.
Trigger(id, raises) == [id |-> id, raises |-> raises]

\* Action.check_constraints, with the mistake of never looking at the
\* constraints.
check_constraints_Skip(action, ns) == Checked("", None, <<>>, <<>>)

\* Action.check_constraints: an action without constraints returns None
\* without calling resolve_validators.
check_constraints(action, ns) ==
    IF action.constraints # <<>>
    THEN resolve_validators(action.constraints, ns)
    ELSE Checked("", None, <<>>, <<>>)

Transition(action, origin, target) ==
    [action |-> action, origin |-> origin, target |-> target]

A_plain ==
    Action("plain", <<Plain("k1"), Plain("k2")>>,
           <<Trigger("t1", ""), Trigger("t2", "")>>)

A_boom ==
    Action("boom", <<>>,
           <<Trigger("t1", ""), Trigger("t2", "Boom"), Trigger("t3", "")>>)

A_or ==
    Action("or", <<OR(<<Plain("k1"), Plain("k2")>>), Plain("k2")>>,
           <<Trigger("t1", "")>>)

A_agg ==
    Action("agg", <<Plain("k2"), Agg("k1")>>, <<>>)

Draft == State("draft", "Draft")

Sub == State("sub", "Sub")

Pub == State("pub", "pub")

\* The transitions a workflow definition may list, in any order and number.
Candidates ==
    { Transition(A_plain, Draft, Sub),
      Transition(A_boom, Draft, Sub),
      Transition(A_or, Draft, Pub),
      Transition(A_agg, Sub, Pub),
      Transition(A_boom, Pub, Draft) }

NoTransition == Transition(Action("", <<>>, <<>>), NoState, NoState)

Result(exc, value) == [exc |-> exc, value |-> value]

(***************************************************************************)
(* Transitions: a tuple of the transitions plus _edges, a dict of dicts    *)
(* origin -> target -> transition.  A dict is modelled as the sequence of  *)
(* its items in insertion order; the defaultdict's empty entry for an      *)
(* origin that was never stored is the empty sequence.                     *)
(***************************************************************************)
DictHas(d, key) == \E i \in 1..Len(d) : StateEq(d[i].key, key)

DictIndex(d, key) == CHOOSE i \in 1..Len(d) : StateEq(d[i].key, key)

\* d[key] = value, with the mistake of moving an existing key to the end.
DictSet_MoveToEnd(d, key, value) ==
    Append(SelectSeq(d, LAMBDA item : ~StateEq(item.key, key)),
           [key |-> key, value |-> value])

\* d[key] = value, with the mistake of keeping the value already stored
\* (d.setdefault(key, value)).
DictSet_FirstWins(d, key, value) ==
    IF DictHas(d, key) THEN d ELSE Append(d, [key |-> key, value |-> value])

\* d[key] = value: an existing key keeps its place, a new one goes last.
DictSet(d, key, value) ==
    IF DictHas(d, key)
    THEN [d EXCEPT ![DictIndex(d, key)] = [key |-> @.key, value |-> value]]
    ELSE Append(d, [key |-> key, value |-> value])

\* _edges[origin], the value read: the inner dict, empty for a new key.
EdgesAt(e, origin) == IF origin \in DOMAIN e THEN e[origin] ELSE <<>>

\* _edges after a read, with the mistake of taking the entry out
\* (_edges.pop(origin, {})).
EdgesAfterRead_Pop(e, origin) == [o \in DOMAIN e \ {origin} |-> e[o]]

\* _edges after _edges[origin] was read: a defaultdict stores the empty dict
\* under a key it did not hold.
EdgesAfterRead(e, origin) ==
    IF origin \in DOMAIN e THEN e ELSE (origin :> <<>>) @@ e

RECURSIVE edges_loop(_, _, _)

edges_loop(trs, i, e) ==
    IF i > Len(trs)
    THEN e
    ELSE edges_loop(trs, i + 1,
             (trs[i].origin :> DictSet(EdgesAt(e, trs[i].origin), trs[i].target, trs[i]))
             @@ e)

\* Transitions.__new__: the _edges built from the supplied transitions.
TransitionsNew(trs) == edges_loop(trs, 1, [o \in {} |-> <<>>])

RECURSIVE available_loop(_, _, _, _)

available_loop(items, ns, i, out) ==
    IF i > Len(items)
    THEN Result("", out)
    ELSE LET r == check_constraints(items[i].value.action, ns)
         IN  IF r.exc # ""
             THEN Result(r.exc, <<>>)
             ELSE available_loop(items, ns, i + 1,
                      IF r.ret = None THEN Append(out, items[i].value) ELSE out)

\* Transitions.available, consumed whole (get_possible_actions makes a tuple).
available(e, origin, ns) == available_loop(EdgesAt(e, origin), ns, 1, <<>>)

\* Transitions.find, with the mistake of also taking the transition of the
\* opposite direction.
find_EitherDirection(e, origin, target) ==
    LET forth == EdgesAt(e, origin)
        back == EdgesAt(e, target)
    IN  CASE DictHas(forth, target) ->
               Result("", forth[DictIndex(forth, target)].value)
          [] DictHas(back, origin) ->
               Result("", back[DictIndex(back, origin)].value)
          [] OTHER -> Result("LookupError", NoTransition)

\* Transitions.find
find(e, origin, target) ==
    LET d == EdgesAt(e, origin)
    IN  IF DictHas(d, target)
        THEN Result("", d[DictIndex(d, target)].value)
        ELSE Result("LookupError", NoTransition)

(***************************************************************************)
(* Workflow and WorkflowItem.                                              *)
(***************************************************************************)
\* Workflow.get_state, with the mistake of taking every falsy name for an
\* absent one (if not name).
get_state_Falsy(default, name) ==
    IF name = None \/ name = "" THEN Result("", default) ELSE StatesGetItem(name)

\* Workflow.get_state: the default state for None only (name is None); any
\* other name, the empty string included, goes to states[name].
get_state(default, name) ==
    IF name = None THEN Result("", default) ELSE StatesGetItem(name)

\* WorkflowItem.state, with the test of the slot inverted.
ItemState_Inverted(default, slot) ==
    IF slot # None /\ slot # ""
    THEN get_state(default, None)
    ELSE get_state(default, slot)

\* WorkflowItem.state, with the mistake of not looking at the slot.
ItemState_Default(default, slot) == get_state(default, None)

\* WorkflowItem.state: a falsy slot (None or the empty string) is unset.
ItemState(default, slot) ==
    IF slot # None /\ slot # ""
    THEN get_state(default, slot)
    ELSE get_state(default, None)

(***************************************************************************)
(* The calls.  call[c] is WorkflowItem c's call in progress or last ended: *)
(* pc its position, arg the argument of set_state, origin and trn the      *)
(* locals read at lines 171, k the position in the trigger loop, log the   *)
(* events of the call so far, exc/errors/value how it ended, and pre the   *)
(* slot's value when the call began.  prev holds how the call before it    *)
(* ended when the caller repeats get_possible_actions on the same item;    *)
(* validators and member are the arguments of the calls that take a list   *)
(* of validators or a State, ret what resolve_validators returned.         *)
(***************************************************************************)
Idle ==
    [pc |-> "idle", op |-> "", arg |-> "", pre |-> None, origin |-> NoState,
     trn |-> NoTransition, k |-> 0, log |-> <<>>, exc |-> "", errors |-> <<>>,
     value |-> <<>>, prev |-> <<>>, validators |-> <<>>, member |-> NoState,
     ret |-> None]

\* What set_state may be handed: the member names, an identifier that is
\* no name, and a string that is neither.
TargetArgs == {"draft", "sub", "pub", "Draft", "nope"}

\* What the host entity may record before the engine first writes the slot.
SlotValues == {None, "", "draft", "pub", "Draft"}

RECURSIVE SeqsUpTo(_, _)

SeqsUpTo(S, n) ==
    IF n = 0
    THEN {<<>>}
    ELSE LET shorter == SeqsUpTo(S, n - 1)
         IN  shorter \cup {Append(q, x) : q \in shorter, x \in S}

Init ==
    /\ transitions \in SeqsUpTo(Candidates, MaxTrans)
    /\ edges = TransitionsNew(transitions)
    /\ default_state \in {Draft, Pub}
    /\ workflow_state \in SlotValues
    /\ namespace \in [Keys -> BOOLEAN]
    /\ call = [c \in Items |-> Idle]

\* set_state, lines 170-171: resolve the target, read the current state,
\* find the transition.
Lookup(c, arg) ==
    /\ call[c].pc = "idle"
    /\ LET begun == [Idle EXCEPT !.op = "set_state", !.arg = arg,
                                 !.pre = workflow_state]
           target == StatesGetItem(arg)
           origin == ItemState(default_state, workflow_state)
           trn == find(edges, origin.value, target.value)
       IN  /\ call' = [call EXCEPT ![c] =
               CASE target.exc # "" ->
                      [begun EXCEPT !.pc = "done", !.exc = target.exc]
                 [] origin.exc # "" ->
                      [begun EXCEPT !.pc = "done", !.exc = origin.exc]
                 [] trn.exc # "" ->
                      [begun EXCEPT !.pc = "done", !.exc = trn.exc,
                                    !.origin = origin.value]
                 [] OTHER ->
                      [begun EXCEPT !.pc = "check", !.origin = origin.value,
                                    !.trn = trn.value]]
           /\ edges' = IF target.exc = "" /\ origin.exc = ""
                       THEN EdgesAfterRead(edges, origin.value)
                       ELSE edges
    /\ UNCHANGED <<transitions, default_state, workflow_state, namespace>>

Constraint(i) == <<"constraint", i>>

Triggered(id) == <<"trigger", id>>

Written(name) == <<"write", name>>

\* Lines 173-174, with the mistake of going on when the check returned an
\* aggregate.
AfterCheck_NoRaise(rec, error, log) ==
    IF error.exc # ""
    THEN [rec EXCEPT !.pc = "done", !.exc = error.exc, !.log = log]
    ELSE [rec EXCEPT !.pc = "triggers", !.k = 1, !.log = log]

\* set_state, lines 172-174, on the result of check_constraints: an
\* exception of the check goes through, an aggregate is raised.
AfterCheck(rec, error, log) ==
    CASE error.exc # "" ->
           [rec EXCEPT !.pc = "done", !.exc = error.exc, !.log = log]
      [] error.ret # None ->
           [rec EXCEPT !.pc = "done", !.exc = "ConstraintsErrors",
                       !.errors = error.errors, !.log = log]
      [] OTHER ->
           [rec EXCEPT !.pc = "triggers", !.k = 1, !.log = log]

\* set_state, lines 172-174: the guard check.
CheckGuards(c) ==
    /\ call[c].pc = "check"
    /\ LET error == check_constraints(call[c].trn.action, namespace)
           log == call[c].log \o [j \in 1..Len(error.seen) |-> Constraint(error.seen[j])]
       IN  call' = [call EXCEPT ![c] = AfterCheck(@, error, log)]
    /\ UNCHANGED <<transitions, edges, default_state, workflow_state, namespace>>

\* The trigger loop, with the mistake of catching a trigger's failure and
\* going on.
TriggerLoop_Swallow(rec) ==
    LET triggers == rec.trn.action.triggers
        k == rec.k
    IN  IF k > Len(triggers)
        THEN [rec EXCEPT !.pc = "write"]
        ELSE [rec EXCEPT !.k = k + 1, !.log = Append(@, Triggered(triggers[k].id))]

\* The trigger loop, with the mistake of leaving it after the first trigger.
TriggerLoop_Break(rec) ==
    LET triggers == rec.trn.action.triggers
        k == rec.k
    IN  CASE k > Len(triggers) -> [rec EXCEPT !.pc = "write"]
          [] triggers[k].raises # "" ->
               [rec EXCEPT !.pc = "done", !.exc = triggers[k].raises,
                           !.log = Append(@, Triggered(triggers[k].id))]
          [] OTHER ->
               [rec EXCEPT !.pc = "write",
                           !.log = Append(@, Triggered(triggers[k].id))]

\* set_state, lines 175-176: one round of the trigger loop; a trigger that
\* raises ends the call, and past the last trigger the loop is left.
TriggerLoop(rec) ==
    LET triggers == rec.trn.action.triggers
        k == rec.k
    IN  CASE k > Len(triggers) -> [rec EXCEPT !.pc = "write"]
          [] triggers[k].raises # "" ->
               [rec EXCEPT !.pc = "done", !.exc = triggers[k].raises,
                           !.log = Append(@, Triggered(triggers[k].id))]
          [] OTHER ->
               [rec EXCEPT !.k = k + 1,
                           !.log = Append(@, Triggered(triggers[k].id))]

RunTrigger(c) ==
    /\ call[c].pc = "triggers"
    /\ call' = [call EXCEPT ![c] = TriggerLoop(@)]
    /\ UNCHANGED <<transitions, edges, default_state, workflow_state, namespace>>

\* Line 177, with the mistake of writing the State's identifier.
SlotValue_Identifier(target) == target.identifier

\* Line 177: what is written to the slot is target.name, the enum name.
SlotValue(target) == target.name

\* Line 177 as a compare-and-swap: the write is refused when the slot no
\* longer holds what the call read.
WriteState_Guarded(c) ==
    /\ call[c].pc = "write"
    /\ IF workflow_state = call[c].pre
       THEN /\ workflow_state' = SlotValue(call[c].trn.target)
            /\ call' = [call EXCEPT ![c].pc = "done",
                           ![c].log = Append(@, Written(workflow_state'))]
       ELSE /\ workflow_state' = workflow_state
            /\ call' = [call EXCEPT ![c].pc = "done", ![c].exc = "Conflict"]
    /\ UNCHANGED <<transitions, edges, default_state, namespace>>

\* set_state, lines 177-178: the write of the slot, and the return.
WriteState(c) ==
    /\ call[c].pc = "write"
    /\ workflow_state' = SlotValue(call[c].trn.target)
    /\ call' = [call EXCEPT ![c].pc = "done",
                            ![c].log = Append(@, Written(workflow_state'))]
    /\ UNCHANGED <<transitions, edges, default_state, namespace>>

\* get_possible_actions, lines 165-167, as item c's call, prev being how
\* the item's call before it ended (empty when it is not a repeat).
Listing(c, prev) ==
    LET begun == [Idle EXCEPT !.op = "get_possible_actions",
                              !.pre = workflow_state, !.prev = prev]
        origin == ItemState(default_state, workflow_state)
        trns == available(edges, origin.value, namespace)
    IN  /\ call' = [call EXCEPT ![c] =
               CASE origin.exc # "" ->
                      [begun EXCEPT !.pc = "done", !.exc = origin.exc]
                 [] OTHER ->
                      [begun EXCEPT !.pc = "done", !.exc = trns.exc,
                                    !.origin = origin.value,
                                    !.value = trns.value]]
        /\ edges' = IF origin.exc = ""
                    THEN EdgesAfterRead(edges, origin.value)
                    ELSE edges
        /\ UNCHANGED <<transitions, default_state, workflow_state, namespace>>

\* get_possible_actions, lines 165-167, in one step.
GetPossibleActions(c) ==
    /\ call[c].pc = "idle"
    /\ Listing(c, <<>>)

\* get_possible_actions called once more on the same WorkflowItem, right
\* after it returned or raised.
GetPossibleActionsAgain(c) ==
    /\ call[c].pc = "done"
    /\ call[c].op = "get_possible_actions"
    /\ Listing(c, <<[exc |-> call[c].exc, value |-> call[c].value]>>)

\* The caller is done with the WorkflowItem's result.
Discard(c) ==
    /\ call[c].pc = "done"
    /\ call' = [call EXCEPT ![c] = Idle]
    /\ UNCHANGED <<transitions, edges, default_state, workflow_state, namespace>>

\* The caller changes a value of the namespace between two calls.
ChangeNamespace(key) ==
    /\ \A c \in Items : call[c].pc = "idle"
    /\ namespace' = [namespace EXCEPT ![key] = ~@]
    /\ UNCHANGED <<transitions, edges, default_state, workflow_state, call>>

NoneRunning == \A c \in Items : call[c].pc = "idle"

\* One caller at a time, as the engine expects of its callers.
Next ==
    \/ \E arg \in TargetArgs : NoneRunning /\ Lookup(1, arg)
    \/ NoneRunning /\ GetPossibleActions(1)
    \/ GetPossibleActionsAgain(1)
    \/ CheckGuards(1)
    \/ RunTrigger(1)
    \/ WriteState(1)
    \/ Discard(1)
    \/ \E key \in Keys : ChangeNamespace(key)

Spec == Init /\ [][Next]_vars

\* Callers that do not serialise their calls: the steps of the two
\* WorkflowItems' calls interleave freely.
NextRace ==
    \/ \E c \in Items, arg \in TargetArgs : Lookup(c, arg)
    \/ \E c \in Items : GetPossibleActions(c)
    \/ \E c \in Items : GetPossibleActionsAgain(c)
    \/ \E c \in Items : CheckGuards(c)
    \/ \E c \in Items : RunTrigger(c)
    \/ \E c \in Items : WriteState(c)
    \/ \E c \in Items : Discard(c)
    \/ \E key \in Keys : ChangeNamespace(key)

\* Longest sequence of transitions of the workflows that are raced on.
MaxRaceTrans == 2

InitRace == Init /\ Len(transitions) <= MaxRaceTrans

SpecRace == InitRace /\ [][NextRace]_vars

(***************************************************************************)
(* The functions of the module called on their own: resolve_validators,    *)
(* OR.validate, Workflow.get_state and the construction of a Workflow.     *)
(***************************************************************************)
\* Longest list of validators handed to resolve_validators or OR(...).
MaxValidators == 2

\* The validators the lists are made of: two that raise a single Error, one
\* that raises an aggregate, and two nested ORs.
ValidatorAtoms ==
    { Plain("k1"), Plain("k2"), Agg("k1"),
      OR(<<Plain("k1")>>), OR(<<Plain("k1"), Plain("k2")>>) }

\* What get_state may be handed: None, the empty string, and the strings
\* set_state may be handed.
NameArgs == {None, ""} \cup TargetArgs

\* The argument of Workflow(...): a string, or a member of the enumeration.
ByName(name) == [name |-> name, member |-> NoState]

ByMember(s) == [name |-> "", member |-> s]

DefaultArgs == {ByName(n) : n \in TargetArgs} \cup {ByMember(s) : s \in states}

\* Workflow.__init__: self.states[default_state].  EnumMeta.__getitem__ is a
\* lookup in the dict of the member names; a member hashes as its
\* identifier and, by the dataclass __eq__, equals no string, so that a
\* member is never found there.
WorkflowInit(arg) ==
    IF arg.member # NoState
    THEN Result("KeyError", NoState)
    ELSE StatesGetItem(arg.name)

\* resolve_validators(validators, item, **namespace)
ResolveValidators(c, validators) ==
    /\ call[c].pc = "idle"
    /\ LET r == resolve_validators(validators, namespace)
       IN  call' = [call EXCEPT ![c] =
               [Idle EXCEPT !.pc = "done", !.op = "resolve_validators",
                            !.validators = validators, !.exc = r.exc,
                            !.ret = r.ret, !.errors = r.errors,
                            !.value = r.seen]]
    /\ UNCHANGED <<transitions, edges, default_state, workflow_state, namespace>>

\* OR(*validators).validate(item, **namespace)
OrValidate(c, validators) ==
    /\ call[c].pc = "idle"
    /\ LET r == or_validate(validators, namespace)
       IN  call' = [call EXCEPT ![c] =
               [Idle EXCEPT !.pc = "done", !.op = "OR.validate",
                            !.validators = validators, !.exc = r.exc,
                            !.errors = r.errors, !.value = r.seen]]
    /\ UNCHANGED <<transitions, edges, default_state, workflow_state, namespace>>

\* workflow.get_state(name)
GetState(c, name) ==
    /\ call[c].pc = "idle"
    /\ LET r == get_state(default_state, name)
       IN  call' = [call EXCEPT ![c] =
               [Idle EXCEPT !.pc = "done", !.op = "get_state", !.arg = name,
                            !.exc = r.exc, !.origin = r.value]]
    /\ UNCHANGED <<transitions, edges, default_state, workflow_state, namespace>>

\* Workflow(default_state): the workflow is constructed anew; when
\* __init__ raises, no new workflow comes to be.
NewWorkflow(c, arg) ==
    /\ call[c].pc = "idle"
    /\ LET r == WorkflowInit(arg)
       IN  /\ call' = [call EXCEPT ![c] =
                  [Idle EXCEPT !.pc = "done", !.op = "Workflow",
                               !.arg = arg.name, !.member = arg.member,
                               !.exc = r.exc, !.origin = r.value]]
           /\ default_state' = IF r.exc = "" THEN r.value ELSE default_state
    /\ UNCHANGED <<transitions, edges, workflow_state, namespace>>

NextUnits ==
    \/ \E vs \in SeqsUpTo(ValidatorAtoms, MaxValidators) : ResolveValidators(1, vs)
    \/ \E vs \in SeqsUpTo(ValidatorAtoms, MaxValidators) : OrValidate(1, vs)
    \/ \E name \in NameArgs : GetState(1, name)
    \/ \E arg \in DefaultArgs : NewWorkflow(1, arg)
    \/ Discard(1)
    \/ \E key \in Keys : ChangeNamespace(key)

\* A workflow without transitions and an entity with no recorded state.
InitUnits == Init /\ transitions = <<>> /\ workflow_state = None

SpecUnits == InitUnits /\ [][NextUnits]_vars

(***************************************************************************)
(* Properties of set_state.                                                *)
(***************************************************************************)
IsPrefix(p, q) == Len(p) <= Len(q) /\ \A i \in 1..Len(p) : p[i] = q[i]

TriggerEvents(log) == SelectSeq(log, LAMBDA e : e[1] = "trigger")

WriteEvents(log) == SelectSeq(log, LAMBDA e : e[1] = "write")

\* A set_state call of item c that has ended and had found its transition.
EndedWithTransition(c) ==
    /\ call[c].op = "set_state"
    /\ call[c].pc = "done"
    /\ call[c].trn # NoTransition

\* C1: when set_state has found the transition and the constraint check
\* yields an aggregate, the call raises that aggregate, no trigger has run,
\* and the slot holds what it held before the call.
C1_GuardFailureAborts ==
    \A c \in Items :
        LET error == resolve_validators(call[c].trn.action.constraints, namespace)
        IN  (EndedWithTransition(c) /\ error.ret = "ConstraintsErrors")
            => /\ call[c].exc = "ConstraintsErrors"
               /\ call[c].errors = error.errors
               /\ TriggerEvents(call[c].log) = <<>>
               /\ WriteEvents(call[c].log) = <<>>
               /\ workflow_state = call[c].pre

C1_Witness ==
    \E c \in Items :
        /\ EndedWithTransition(c)
        /\ call[c].exc = "ConstraintsErrors"
        /\ call[c].errors = <<"k1", "k2">>
        /\ call[c].trn.action.triggers # <<>>
        /\ call[c].trn.target.name # call[c].pre

HasRaising(triggers) == \E k \in 1..Len(triggers) : triggers[k].raises # ""

FirstRaising(triggers) ==
    CHOOSE k \in 1..Len(triggers) :
        /\ triggers[k].raises # ""
        /\ \A j \in 1..(k - 1) : triggers[j].raises = ""

GuardsPass(c) ==
    LET error == check_constraints(call[c].trn.action, namespace)
    IN  error.exc = "" /\ error.ret = None

\* C2: when the guards pass and trigger Tk of [T1..Tn] is the first to
\* raise, the triggers that ran are exactly T1..Tk in order (T1..T(k-1)
\* stay applied, T(k+1)..Tn never run), the slot is not written and holds
\* its value from before the call, and the call ends with Tk's exception.
C2_TriggerFailureStopsTheCall ==
    \A c \in Items :
        LET triggers == call[c].trn.action.triggers
        IN  (EndedWithTransition(c) /\ GuardsPass(c) /\ HasRaising(triggers))
            => LET k == FirstRaising(triggers)
               IN  /\ TriggerEvents(call[c].log)
                        = [j \in 1..k |-> Triggered(triggers[j].id)]
                   /\ WriteEvents(call[c].log) = <<>>
                   /\ workflow_state = call[c].pre
                   /\ call[c].exc = triggers[k].raises

C2_Witness ==
    \E c \in Items :
        /\ EndedWithTransition(c)
        /\ call[c].exc = "Boom"
        /\ call[c].log = <<Triggered("t1"), Triggered("t2")>>
        /\ Len(call[c].trn.action.triggers) = 3
        /\ workflow_state = call[c].pre
        /\ call[c].trn.target.name # call[c].pre

\* The events of a whole set_state call along transition trn, in the
\* declared order: the constraints, the triggers, the write.
FullLog(trn) ==
    [i \in 1..Len(trn.action.constraints) |-> Constraint(i)]
    \o [j \in 1..Len(trn.action.triggers) |-> Triggered(trn.action.triggers[j].id)]
    \o <<Written(SlotValue(trn.target))>>

\* C3: at every point of a set_state call its events so far are a prefix
\* of: every constraint in declared order, then every trigger in declared
\* order, then the write.  So no trigger runs before all constraints were
\* evaluated, and the write follows the last trigger; a call that returns
\* has gone through all of them.
C3_EventsInDeclaredOrder ==
    \A c \in Items :
        (call[c].op = "set_state" /\ call[c].trn # NoTransition)
        => /\ IsPrefix(call[c].log, FullLog(call[c].trn))
           /\ (call[c].pc = "done" /\ call[c].exc = "")
                => call[c].log = FullLog(call[c].trn)
           /\ call[c].pc \in {"triggers", "write"}
                => Len(call[c].log) >= Len(call[c].trn.action.constraints)
           /\ call[c].pc = "write"
                => Len(call[c].log) = Len(FullLog(call[c].trn)) - 1

C3_Witness ==
    \E c \in Items :
        /\ EndedWithTransition(c)
        /\ call[c].exc = ""
        /\ call[c].log = <<Constraint(1), Constraint(2), Triggered("t1"),
                           Triggered("t2"), Written("sub")>>

\* Whether some supplied transition goes from origin to target.
Supplied(origin, target) ==
    \E p \in 1..Len(transitions) :
        /\ StateEq(transitions[p].origin, origin)
        /\ StateEq(transitions[p].target, target)

\* C4: set_state with a target that is no member of the enumeration, or
\* with no transition indexed from the current state to the target, ends
\* with a lookup failure (KeyError or LookupError, never the aggregate),
\* with no constraint evaluated, no trigger run and the slot unchanged.
C4_LookupFailureTouchesNothing ==
    \A c \in Items :
        LET origin == ItemState(default_state, call[c].pre)
            target == CHOOSE s \in states : s.name = call[c].arg
        IN  (/\ call[c].op = "set_state"
             /\ \/ ~StatesHas(call[c].arg)
                \/ origin.exc = "" /\ ~Supplied(origin.value, target))
            => /\ call[c].pc = "done"
               /\ call[c].exc \in {"KeyError", "LookupError"}
               /\ call[c].log = <<>>
               /\ workflow_state = call[c].pre

C4_Witness ==
    \E c \in Items :
        /\ call[c].op = "set_state"
        /\ call[c].pc = "done"
        /\ call[c].exc = "LookupError"
        /\ StatesHas(call[c].arg)
        /\ Supplied(CHOOSE s \in states : s.name = call[c].arg, call[c].origin)
        /\ call[c].log = <<>>

\* A set_state call of item c that returned normally.
Returned(c) ==
    /\ call[c].op = "set_state"
    /\ call[c].pc = "done"
    /\ call[c].exc = ""

\* C5 as stated: after a set_state call that returned, the slot holds the
\* target State's identifier.
C5_SlotHoldsIdentifier ==
    \A c \in Items :
        Returned(c) => workflow_state = call[c].trn.target.identifier

\* C5, amended: after a set_state call that returned, the slot holds the
\* target member's enum name, the argument the call was given; it is the
\* State's identifier only for a member whose name and identifier are the
\* same string.
C5_SlotHoldsName ==
    \A c \in Items :
        Returned(c)
        => /\ workflow_state = call[c].trn.target.name
           /\ workflow_state = call[c].arg
           /\ (workflow_state = call[c].trn.target.identifier)
                <=> (call[c].trn.target.name = call[c].trn.target.identifier)

C5_Witness ==
    \E c \in Items :
        /\ Returned(c)
        /\ call[c].trn.target.name # call[c].trn.target.identifier
        /\ workflow_state = "sub"
        /\ call[c].pre # "sub"

(***************************************************************************)
(* Interleaved calls.                                                      *)
(***************************************************************************)
\* C6: nothing guards the write: a call that has passed its guards and run
\* its triggers writes its target and returns whatever the slot holds by
\* then, so a second writer overwrites the first and neither call fails.
C6_WriteIsUnconditional ==
    [][\A c \in Items :
         (call[c].pc = "write" /\ call'[c] # call[c])
         => /\ call'[c].pc = "done"
            /\ call'[c].exc = ""
            /\ workflow_state' = call[c].trn.target.name]_vars

\* Both calls read the same current state, passed their guards, ran their
\* triggers and returned; item 1's write was overwritten by item 2's.
C6_Witness ==
    /\ Returned(1) /\ Returned(2)
    /\ call[1].pre = call[2].pre
    /\ call[1].origin = call[2].origin
    /\ call[1].log = FullLog(call[1].trn)
    /\ call[2].log = FullLog(call[2].trn)
    /\ call[1].trn.action.constraints # <<>>
    /\ call[2].trn.action.constraints # <<>>
    /\ call[1].trn.action.triggers # <<>>
    /\ call[2].trn.action.triggers # <<>>
    /\ call[1].trn.target.name # call[1].pre
    /\ call[1].trn.target.name # call[2].trn.target.name
    /\ workflow_state = call[2].trn.target.name

(***************************************************************************)
(* get_possible_actions and the transition index.                          *)
(***************************************************************************)
RECURSIVE Holds(_, _)

\* Whether a constraint is meant to pass: a plain or aggregate-raising one
\* by its key, an OR when one of its alternatives passes.
Holds(v, ns) ==
    IF v.kind = "or"
    THEN \E i \in 1..Len(v.validators) : Holds(v.validators[i], ns)
    ELSE ns[v.key]

AllHold(action, ns) ==
    \A i \in 1..Len(action.constraints) : Holds(action.constraints[i], ns)

Range(q) == {q[i] : i \in 1..Len(q)}

\* A get_possible_actions call of item c that has ended, the entity's slot
\* being unset or naming a member.
Listed(c) ==
    /\ call[c].op = "get_possible_actions"
    /\ call[c].pc = "done"
    /\ ItemState(default_state, call[c].pre).exc = ""

\* C7: get_possible_actions returns exactly the transitions indexed under
\* the current state whose action's constraints all pass; one with a
\* failing constraint (plain, OR with every alternative failing, or one
\* raising an aggregate) is left out.
C7_ListsThePassingTransitions ==
    \A c \in Items :
        Listed(c)
        => /\ call[c].exc = ""
           /\ Range(call[c].value)
                = {item.value : item \in
                     {i \in Range(EdgesAt(edges, call[c].origin)) :
                        AllHold(i.value.action, namespace)}}

\* C8 as stated: the transitions yielded are in the relative order in
\* which they were supplied at construction.
C8_YieldedInSupplyOrder ==
    \A c \in Items :
        (Listed(c) /\ call[c].exc = "")
        => \A i, j \in 1..Len(call[c].value) :
              i < j => \E p, q \in 1..Len(transitions) :
                          /\ p < q
                          /\ transitions[p] = call[c].value[i]
                          /\ transitions[q] = call[c].value[j]

\* The place at which a pair (origin, target) was first supplied.
FirstSupplied(origin, target) ==
    CHOOSE p \in 1..Len(transitions) :
        /\ StateEq(transitions[p].origin, origin)
        /\ StateEq(transitions[p].target, target)
        /\ \A q \in 1..(p - 1) :
              ~(/\ StateEq(transitions[q].origin, origin)
                /\ StateEq(transitions[q].target, target))

\* The place at which a pair (origin, target) was last supplied.
LastSupplied(origin, target) ==
    CHOOSE p \in 1..Len(transitions) :
        /\ StateEq(transitions[p].origin, origin)
        /\ StateEq(transitions[p].target, target)
        /\ \A q \in (p + 1)..Len(transitions) :
              ~(/\ StateEq(transitions[q].origin, origin)
                /\ StateEq(transitions[q].target, target))

\* C8, amended: the transitions yielded are in the order in which their
\* (origin, target) pairs were FIRST supplied at construction, which is the
\* supply order when no pair is supplied twice; a pair supplied several
\* times yields its last transition at the place of its first.
C8_YieldedInFirstSupplyOrder ==
    /\ \A c \in Items :
          (Listed(c) /\ call[c].exc = "")
          => \A i, j \in 1..Len(call[c].value) :
                i < j =>
                   FirstSupplied(call[c].value[i].origin, call[c].value[i].target)
                   < FirstSupplied(call[c].value[j].origin, call[c].value[j].target)
    /\ \A o \in states : \A i, j \in 1..Len(EdgesAt(edges, o)) :
          i < j => FirstSupplied(o, EdgesAt(edges, o)[i].key)
                   < FirstSupplied(o, EdgesAt(edges, o)[j].key)

C8_Witness ==
    \E c \in Items :
        /\ Listed(c)
        /\ call[c].exc = ""
        /\ Len(transitions) = 3
        /\ call[c].value = <<transitions[3], transitions[2]>>
        /\ transitions[1] # transitions[3]

\* C9: find(origin, target) returns the last supplied transition with that
\* origin and that target when there is one, and fails with LookupError
\* otherwise; a transition supplied for the opposite direction does not
\* count.  It holds of the index as built and of every set_state call that
\* got as far as the lookup.
C9_FindReturnsLastSupplied ==
    /\ \A o, t \in states :
          IF Supplied(o, t)
          THEN find(edges, o, t) = Result("", transitions[LastSupplied(o, t)])
          ELSE find(edges, o, t).exc = "LookupError"
    /\ \A c \in Items :
          LET origin == ItemState(default_state, call[c].pre)
              target == CHOOSE s \in states : s.name = call[c].arg
          IN  (/\ call[c].op = "set_state"
               /\ StatesHas(call[c].arg)
               /\ origin.exc = "")
              => IF Supplied(origin.value, target)
                 THEN call[c].trn = transitions[LastSupplied(origin.value, target)]
                 ELSE call[c].pc = "done" /\ call[c].exc = "LookupError"

C9_Witness ==
    \E c \in Items :
        /\ call[c].op = "set_state"
        /\ call[c].pc = "check"
        /\ Len(transitions) = 3
        /\ call[c].trn = transitions[3]
        /\ transitions[1] # transitions[3]
        /\ StateEq(transitions[1].origin, transitions[3].origin)
        /\ StateEq(transitions[1].target, transitions[3].target)
        /\ ~Supplied(transitions[3].target, transitions[3].origin)

(***************************************************************************)
(* The current state.                                                      *)
(***************************************************************************)
\* A call of item c that has read the current state: get_possible_actions
\* does at once, set_state after it has resolved its argument.
HasReadState(c) ==
    \/ call[c].op = "get_possible_actions"
    \/ call[c].op = "set_state" /\ StatesHas(call[c].arg)

\* C10 as stated: with no recorded state the current state is the default
\* state; with the identifier of a member recorded it is that member.
C10_IdentifierResolves ==
    \A c \in Items :
        HasReadState(c)
        => /\ call[c].pre = None => call[c].origin = default_state
           /\ \A s \in states :
                 call[c].pre = s.identifier => call[c].origin = s

\* C10, amended: with no recorded state (None, or the empty string) the
\* current state is the default state; with the enum NAME of a member
\* recorded it is that member.  A recorded identifier that is no member's
\* name makes the read fail with KeyError.
C10_NameResolves ==
    \A c \in Items :
        HasReadState(c)
        => /\ call[c].pre \in {None, ""} => call[c].origin = default_state
           /\ \A s \in states :
                 call[c].pre = s.name => call[c].origin = s
           /\ (~StatesHas(call[c].pre) /\ call[c].pre \notin {None, ""})
                 => call[c].pc = "done" /\ call[c].exc = "KeyError"

C10_Witness ==
    \E c \in Items :
        /\ HasReadState(c)
        /\ call[c].pre = None
        /\ call[c].origin = default_state
        /\ default_state = Pub
        /\ call[c].pc = "done"
        /\ call[c].exc = ""

(***************************************************************************)
(* Workflow.get_state.                                                     *)
(***************************************************************************)
\* A call of item c to the function op that has ended.
Ended(c, op) == call[c].op = op /\ call[c].pc = "done"

\* C11 as stated: get_state returns the default state for None and for the
\* empty string, and the member for a string that names one.
C11_EmptyGivesDefault ==
    \A c \in Items :
        Ended(c, "get_state")
        => /\ call[c].arg \in {None, ""}
                 => call[c].exc = "" /\ call[c].origin = default_state
           /\ StatesHas(call[c].arg)
                 => call[c].exc = "" /\ call[c].origin.name = call[c].arg

\* C11, amended: get_state returns the default state for None only, and
\* the member for a string that is the enum name of one; any other string,
\* the empty one included, makes it raise KeyError.
C11_OnlyNoneGivesDefault ==
    \A c \in Items :
        Ended(c, "get_state")
        => /\ call[c].arg = None
                 => call[c].exc = "" /\ call[c].origin = default_state
           /\ StatesHas(call[c].arg)
                 => call[c].exc = "" /\ call[c].origin.name = call[c].arg
           /\ (call[c].arg # None /\ ~StatesHas(call[c].arg))
                 => call[c].exc = "KeyError" /\ call[c].origin = NoState

C11_Witness ==
    \E c \in Items :
        /\ Ended(c, "get_state")
        /\ call[c].arg = ""
        /\ call[c].exc = "KeyError"

(***************************************************************************)
(* resolve_validators and OR.validate.                                     *)
(***************************************************************************)
RECURSIVE Failures(_, _)
RECURSIVE AllFailures(_, _, _)

\* The single failures a failing constraint stands for: its own for a
\* plain one, the elements of its aggregate for an aggregate-raising one,
\* those of all its alternatives for an OR; none when it is meant to pass.
Failures(v, ns) ==
    CASE Holds(v, ns) -> <<>>
      [] v.kind = "plain" -> <<v.key>>
      [] v.kind = "agg" -> <<v.key \o ".1", v.key \o ".2">>
      [] OTHER -> AllFailures(v.validators, ns, 1)

\* The failures of the validators from position i on, in order.
AllFailures(validators, ns, i) ==
    IF i > Len(validators)
    THEN <<>>
    ELSE Failures(validators[i], ns) \o AllFailures(validators, ns, i + 1)

Positions(n) == [i \in 1..n |-> i]

SomeHolds(validators, ns) ==
    \E i \in 1..Len(validators) : Holds(validators[i], ns)

\* C12: resolve_validators calls every constraint of the list in order,
\* returns None exactly when none fails, and otherwise returns a non-empty
\* aggregate of the failures of the failing constraints, in order.
C12_ResolveEvaluatesAll ==
    \A c \in Items :
        Ended(c, "resolve_validators")
        => LET validators == call[c].validators
               failures == AllFailures(validators, namespace, 1)
           IN  /\ call[c].exc = ""
               /\ call[c].value = Positions(Len(validators))
               /\ call[c].ret = None <=> failures = <<>>
               /\ call[c].ret # None
                     => call[c].errors = failures /\ call[c].errors # <<>>

\* C13: when a constraint of the list raises an aggregate,
\* resolve_validators goes on with the remaining constraints and returns
\* an aggregate in which the elements of that aggregate stand flattened,
\* in order, among the single failures.
C13_AggregateIsFlattened ==
    \A c \in Items :
        LET validators == call[c].validators
        IN  (/\ Ended(c, "resolve_validators")
             /\ \E i \in 1..Len(validators) :
                   validators[i].kind = "agg" /\ ~namespace[validators[i].key])
            => /\ call[c].exc = ""
               /\ call[c].value = Positions(Len(validators))
               /\ call[c].ret = "ConstraintsErrors"
               /\ call[c].errors = AllFailures(validators, namespace, 1)

\* C14: when every sub-validator of an OR fails, validate has tried all of
\* them in order and raises an aggregate of all their single failures, in
\* order, nested aggregates flattened.
C14_AllFailSignalsAggregate ==
    \A c \in Items :
        LET validators == call[c].validators
        IN  (/\ Ended(c, "OR.validate")
             /\ validators # <<>>
             /\ ~SomeHolds(validators, namespace))
            => /\ call[c].exc = "ConstraintsErrors"
               /\ call[c].value = Positions(Len(validators))
               /\ call[c].errors = AllFailures(validators, namespace, 1)

\* The first sub-validator that is meant to pass.
FirstHolding(validators, ns) ==
    CHOOSE i \in 1..Len(validators) :
        /\ Holds(validators[i], ns)
        /\ \A j \in 1..(i - 1) : ~Holds(validators[j], ns)

\* C15: OR.validate tries its sub-validators in declared order and returns
\* with no failure at the first that passes: the failures of the earlier
\* ones are dropped and none after it is called.
C15_ReturnsAtFirstPass ==
    \A c \in Items :
        LET validators == call[c].validators
        IN  (Ended(c, "OR.validate") /\ SomeHolds(validators, namespace))
            => /\ call[c].exc = ""
               /\ call[c].errors = <<>>
               /\ call[c].value = Positions(FirstHolding(validators, namespace))

(***************************************************************************)
(* The construction of a Workflow.                                         *)
(***************************************************************************)
\* C16: Workflow(default_state) given a member of the enumeration stores
\* that member, given the name of a member stores the member of that name,
\* and given a string that names no member raises.
C16_ConstructionIsIdempotent ==
    \A c \in Items :
        Ended(c, "Workflow")
        => /\ call[c].member \in states
                 => call[c].exc = "" /\ default_state = call[c].member
           /\ (call[c].member = NoState /\ StatesHas(call[c].arg))
                 => call[c].exc = "" /\ default_state.name = call[c].arg
           /\ (call[c].member = NoState /\ ~StatesHas(call[c].arg))
                 => call[c].exc # ""

(***************************************************************************)
(* The listing and the commit.                                             *)
(***************************************************************************)
\* C17: get_possible_actions called twice in a row on the same
\* WorkflowItem, nothing changing in between, ends the same way both
\* times: the same transitions in the same order (or the same exception).
C17_ListingTwiceAgrees ==
    \A c \in Items :
        (Ended(c, "get_possible_actions") /\ call[c].prev # <<>>)
        => call[c].prev[1] = [exc |-> call[c].exc, value |-> call[c].value]

C17_Witness ==
    \E c \in Items :
        /\ Ended(c, "get_possible_actions")
        /\ call[c].prev # <<>>
        /\ call[c].exc = ""
        /\ Len(call[c].value) = 2
        /\ call[c].prev[1].value = call[c].value

\* The value a set_state call of item c that returned wrote to the slot.
WrittenBy(c) == call[c].log[Len(call[c].log)][2]

\* C18: after a set_state call has returned, and until the slot is written
\* again, the current state is the target of the call: the value written
\* resolves back to the target, and every WorkflowItem whose call found
\* that value in the slot read the target as the current state.
C18_ReadAfterCommitIsTarget ==
    \A c \in Items :
        Returned(c)
        => /\ workflow_state = WrittenBy(c)
                 => ItemState(default_state, workflow_state)
                       = Result("", call[c].trn.target)
           /\ \A d \in Items :
                 (HasReadState(d) /\ call[d].pre = WrittenBy(c))
                 => call[d].origin = call[c].trn.target

C18_Witness ==
    \E c, d \in Items :
        /\ c # d
        /\ Returned(c)
        /\ call[c].trn.target = Sub
        /\ workflow_state = WrittenBy(c)
        /\ HasReadState(d)
        /\ call[d].pre = WrittenBy(c)
        /\ call[d].origin = Sub

\* The slot values of an entity whose recorded state is unset or names a
\* member.
ValidSlot == {None, ""} \cup {s.name : s \in states}

ConstraintEvents(log) == SelectSeq(log, LAMBDA e : e[1] = "constraint")

\* C19: with serialised calls, a slot that is unset or names a member
\* stays so, and every change of it is the write of a set_state call whose
\* transition is supplied from the current state to the new one and whose
\* constraints were all called and passed.
C19_SlotStaysOnIndexedPath ==
    [][LET written ==
              \E c \in Items :
                  LET trn == call[c].trn
                      error == resolve_validators(trn.action.constraints, namespace)
                  IN  /\ call[c].op = "set_state"
                      /\ call[c].pc = "write"
                      /\ call'[c].pc = "done"
                      /\ \E p \in 1..Len(transitions) : transitions[p] = trn
                      /\ ItemState(default_state, workflow_state)
                            = Result("", trn.origin)
                      /\ workflow_state' = trn.target.name
                      /\ error.exc = "" /\ error.ret = None
                      /\ Len(ConstraintEvents(call[c].log))
                            = Len(trn.action.constraints)
       IN  workflow_state \in ValidSlot
           => (/\ workflow_state' \in ValidSlot
               /\ workflow_state' # workflow_state => written)
      ]_vars

C19_Witness ==
    \E c \in Items :
        /\ Returned(c)
        /\ call[c].pre = "draft"
        /\ call[c].trn.origin = Draft
        /\ call[c].trn.action.constraints # <<>>
        /\ workflow_state = "pub"

\* C20: nothing changing in between, set_state(t) for a member t passes
\* its lookup and its guard check, and goes on to the triggers, exactly
\* when the get_possible_actions call before it returned a transition
\* whose target is t.
C20_ListingAgreesWithCommit ==
    \A c, d \in Items :
        (/\ c # d
         /\ Listed(c)
         /\ call[d].op = "set_state"
         /\ StatesHas(call[d].arg)
         /\ call[d].pc # "check"
         /\ call[d].pre = call[c].pre)
        => (call[d].k >= 1
            <=> /\ call[c].exc = ""
                /\ \E i \in 1..Len(call[c].value) :
                      call[c].value[i].target.name = call[d].arg)

====
